---- MODULE Spec2Model ----
(***************************************************************************)
(* Model of quantum_lib/notations/from_array.py.                           *)
(*                                                                         *)
(* Text is a sequence of one-character strings.  A float64 is a decimal    *)
(* floating-point number m * 10^e with a four-digit mantissa               *)
(* (1000 <= |m| <= 9999, or m = 0), every arithmetic result rounded        *)
(* half-to-even to four digits, plus the value nan.  A complex128 is a     *)
(* pair of such floats.  An ndarray is a view (base buffer, shape) on a    *)
(* buffer of the heap.                                                     *)
(***************************************************************************)
EXTENDS Integers, Sequences, FiniteSets, TLC

VARIABLES
    heap,      \* buffer id -> [dtype, data]: the storage of every live ndarray
    matrix,    \* the argument of complex_matrix_to_string: rows of complex
    ret,       \* what the last call returned or raised
    views,     \* the ndarrays callers hold from array_to_matrix_representation
    writes,    \* how many writes callers have made through those ndarrays
    last,      \* the name of the last operation
    orig       \* the caller's array as it was before the first call

vars == <<heap, matrix, ret, views, writes, last, orig>>

(***************************************************************************)
(* Bounds of the model.                                                    *)
(***************************************************************************)
MaxLen == 4
MaxCells == 4
MaxCallLen == 2
MaxWrites == 1

(***************************************************************************)
(* Constants of the program.                                               *)
(***************************************************************************)
NegligibleExp == -10
DiracDecimals == 3
MatrixDecimals == 4
SeparatorLen == 3

(***************************************************************************)
(* Integers and text.                                                      *)
(***************************************************************************)
RECURSIVE Pow10(_)
Pow10(k) == IF k <= 0 THEN 1 ELSE 10 * Pow10(k - 1)

Abs(n) == IF n < 0 THEN 0 - n ELSE n

RECURSIVE NumDigits(_)
NumDigits(n) == IF n < 10 THEN 1 ELSE 1 + NumDigits(n \div 10)

DigitChar(d) == <<"0", "1", "2", "3", "4", "5", "6", "7", "8", "9">>[d + 1]

RECURSIVE IntToStr(_)
IntToStr(n) ==
    IF n < 10 THEN <<DigitChar(n)>>
    ELSE IntToStr(n \div 10) \o <<DigitChar(n % 10)>>

RECURSIVE BinToStr(_)
BinToStr(n) ==
    IF n < 2 THEN <<DigitChar(n)>>
    ELSE BinToStr(n \div 2) \o <<DigitChar(n % 2)>>

RECURSIVE PadLeft(_, _, _)
PadLeft(s, width, c) ==
    IF Len(s) >= width THEN s ELSE PadLeft(<<c>> \o s, width, c)

\* n / 10^d for n < 10^4, rounded half-to-even to an integer.
RoundDiv10(n, d) ==
    IF d >= 5 THEN 0
    ELSE LET p == Pow10(d)
             q == n \div p
             r == n % p
         IN  IF 2 * r > p \/ (2 * r = p /\ q % 2 = 1) THEN q + 1 ELSE q

(***************************************************************************)
(* float64.                                                                *)
(***************************************************************************)
Zero == [k |-> "num", m |-> 0, e |-> 0]
NaN == [k |-> "nan", m |-> 0, e |-> 0]

\* The float nearest to n * 10^e, n > 0.
RECURSIVE RoundF(_, _)
RoundF(n, e) ==
    IF n < 1000 THEN RoundF(n * 10, e - 1)
    ELSE IF n <= 9999 THEN [k |-> "num", m |-> n, e |-> e]
    ELSE LET d == NumDigits(n) - 4
             p == Pow10(d)
             q == n \div p
             r == n % p
             q2 == IF 2 * r > p \/ (2 * r = p /\ q % 2 = 1) THEN q + 1 ELSE q
         IN  IF q2 = 10000 THEN [k |-> "num", m |-> 1000, e |-> e + d + 1]
             ELSE [k |-> "num", m |-> q2, e |-> e + d]

\* The float literal n * 10^e.
Flt(n, e) ==
    IF n = 0 THEN Zero
    ELSE IF n < 0 THEN [RoundF(0 - n, e) EXCEPT !.m = 0 - @]
    ELSE RoundF(n, e)

FNeg(a) == [a EXCEPT !.m = 0 - @]

FAbs(a) == [a EXCEPT !.m = Abs(@)]

FMul(a, b) ==
    IF a.k = "nan" \/ b.k = "nan" THEN NaN
    ELSE IF a.m = 0 \/ b.m = 0 THEN Zero
    ELSE LET p == RoundF(Abs(a.m) * Abs(b.m), a.e + b.e)
         IN  IF (a.m < 0) = (b.m < 0) THEN p ELSE FNeg(p)

\* a + b for a, b >= 0.
FAddPos(a, b) ==
    IF a.k = "nan" \/ b.k = "nan" THEN NaN
    ELSE IF a.m = 0 THEN b
    ELSE IF b.m = 0 THEN a
    ELSE LET big == IF a.e >= b.e THEN a ELSE b
             small == IF a.e >= b.e THEN b ELSE a
             d == big.e - small.e
         IN  IF d > 5 THEN big
             ELSE RoundF(big.m * Pow10(d) + small.m, small.e)

\* a / b for b >= 0; 0 / 0 is nan (numpy warns and does not raise).
FDiv(a, b) ==
    IF a.k = "nan" \/ b.k = "nan" THEN NaN
    ELSE IF b.m = 0 THEN NaN
    ELSE IF a.m = 0 THEN Zero
    ELSE LET am == Abs(a.m)
             sh == IF am >= b.m THEN 3 ELSE 4
             n == am * Pow10(sh)
             q == n \div b.m
             r == n % b.m
             q2 == IF 2 * r > b.m \/ (2 * r = b.m /\ q % 2 = 1) THEN q + 1 ELSE q
             res == RoundF(q2, a.e - b.e - sh)
         IN  IF a.m < 0 THEN FNeg(res) ELSE res

\* The integer r in lo..hi with r*r <= n < (r+1)*(r+1).
RECURSIVE ISqrt(_, _, _)
ISqrt(n, lo, hi) ==
    IF lo >= hi THEN lo
    ELSE LET mid == (lo + hi + 1) \div 2
         IN  IF mid * mid <= n THEN ISqrt(n, mid, hi) ELSE ISqrt(n, lo, mid - 1)

\* sqrt(a) for a >= 0.
FSqrt(a) ==
    IF a.k = "nan" THEN NaN
    ELSE IF a.m = 0 THEN Zero
    ELSE LET sh == IF a.e % 2 = 0 THEN 4 ELSE 3
             n == a.m * Pow10(sh)
             r == ISqrt(n, 1000, 9999)
             r2 == IF n > r * r + r THEN r + 1 ELSE r
         IN  RoundF(r2, (a.e - sh) \div 2)

\* a > b; any comparison with nan is false.
FGreater(a, b) ==
    /\ a.k = "num" /\ b.k = "num"
    /\ \/ a.m > 0 /\ b.m <= 0
       \/ a.m > 0 /\ b.m > 0 /\ (a.e > b.e \/ (a.e = b.e /\ a.m > b.m))
       \/ a.m = 0 /\ b.m < 0
       \/ a.m < 0 /\ b.m < 0 /\ (a.e < b.e \/ (a.e = b.e /\ a.m > b.m))

FIsZero(a) == a.k = "num" /\ a.m = 0

\* float.__format__ with the format specifier ".<nd>f".
FormatFixed(a, nd) ==
    IF a.k = "nan" THEN <<"n", "a", "n">>
    ELSE LET sh == a.e + nd
             scaled == IF sh >= 0 THEN Abs(a.m) * Pow10(sh)
                       ELSE RoundDiv10(Abs(a.m), 0 - sh)
             p == Pow10(nd)
         IN  (IF a.m < 0 THEN <<"-">> ELSE <<>>)
             \o IntToStr(scaled \div p) \o <<".">>
             \o PadLeft(IntToStr(scaled % p), nd, "0")

(***************************************************************************)
(* complex128.                                                             *)
(***************************************************************************)
Cx(re, im) == [real |-> re, imag |-> im]

CDivReal(z, r) == Cx(FDiv(z.real, r), FDiv(z.imag, r))

\* |z|^2
CAbs2(z) == FAddPos(FMul(z.real, z.real), FMul(z.imag, z.imag))

\* np.abs of an element: |x| of a float64, hypot(re, im) of a complex128.
NpAbs(z, dtype) ==
    IF dtype = "float64" THEN FAbs(z.real) ELSE FSqrt(CAbs2(z))

\* complex.__format__ with ".<nd>f": both parts, the sign of the imaginary
\* part always written, the unit "j".
FormatComplexFixed(z, nd) ==
    FormatFixed(z.real, nd)
    \o (IF z.imag.k = "num" /\ z.imag.m < 0 THEN <<"-">> ELSE <<"+">>)
    \o FormatFixed(FAbs(z.imag), nd) \o <<"j">>

\* A variant that writes the real part alone whatever the dtype.
FormatAmplitude_RealOnly(z, dtype) == FormatFixed(z.real, DiracDecimals)

\* f"{amplitude:.3f}" of an element of an array of the given dtype.
FormatAmplitude(z, dtype) ==
    IF dtype = "float64" THEN FormatFixed(z.real, DiracDecimals)
    ELSE FormatComplexFixed(z, DiracDecimals)

(***************************************************************************)
(* ndarrays.                                                               *)
(***************************************************************************)
NDArray(dtype, data) == [dtype |-> dtype, data |-> data]

\* The amplitudes the model draws its arrays from.
ComplexAmplitudes ==
    { Cx(Zero, Zero), Cx(Flt(1, 0), Zero), Cx(Flt(-1, 0), Zero),
      Cx(Zero, Flt(1, 0)), Cx(Flt(1, 0), Flt(-1, 0)),
      Cx(Flt(1, -9), Zero), Cx(Flt(1, -11), Zero) }

RealAmplitudes == { z \in ComplexAmplitudes : z.imag = Zero }

ArraysUpTo(n) ==
    { NDArray("complex128", d) :
        d \in UNION { [1..l -> ComplexAmplitudes] : l \in 0..n } }
    \cup
    { NDArray("float64", d) :
        d \in UNION { [1..l -> RealAmplitudes] : l \in 0..n } }

(***************************************************************************)
(* array_to_dirac_notation.                                                *)
(***************************************************************************)
RECURSIVE SumAbs2(_, _)
SumAbs2(data, i) ==
    IF i = 0 THEN Zero ELSE FAddPos(SumAbs2(data, i - 1), CAbs2(data[i]))

\* np.linalg.norm of a one-dimensional array.
LinalgNorm(arr) == FSqrt(SumAbs2(arr.data, Len(arr.data)))

\* superposition_array / np.linalg.norm(superposition_array): a new array.
Normalized(arr) ==
    LET norm == LinalgNorm(arr)
    IN  NDArray(arr.dtype, [i \in 1..Len(arr.data) |-> CDivReal(arr.data[i], norm)])

\* A variant that divides in place (superposition_array /= norm).
AssignNormalized_InPlace(h, b, normalized) == [h EXCEPT ![b] = normalized]

\* What the assignment of line 18 does to the buffers callers can reach:
\* it rebinds the local name to the new array and writes to no buffer.
AssignNormalized(h, b, normalized) == h

RECURSIVE Pow2(_)
Pow2(k) == IF k <= 0 THEN 1 ELSE 2 * Pow2(k - 1)

RECURSIVE FloorLog2(_)
FloorLog2(n) == IF n < 2 THEN 0 ELSE 1 + FloorLog2(n \div 2)

\* A variant that rejects every length that is no power of two.
NumQubits_PowerOfTwoOnly(length) ==
    IF length = 0 \/ Pow2(FloorLog2(length)) # length
    THEN [raises |-> TRUE, n |-> 0]
    ELSE [raises |-> FALSE, n |-> FloorLog2(length)]

\* int(np.log2(length)): np.log2(0) is -inf, and int(-inf) raises.
NumQubits(length) ==
    IF length = 0 THEN [raises |-> TRUE, n |-> 0]
    ELSE [raises |-> FALSE, n |-> FloorLog2(length)]

\* A variant with the threshold 1e-8.
NegligibleThreshold_Loose == Flt(1, NegligibleExp + 2)

NegligibleThreshold == Flt(1, NegligibleExp)

\* np.abs(amplitude) > 1e-10
IsSignificant(amplitude, dtype) ==
    FGreater(NpAbs(amplitude, dtype), NegligibleThreshold)

\* A variant without the zero padding (format(i, "b")).
BinaryRep_Unpadded(i, num_qubits) == BinToStr(i)

\* format(i, f"0{num_qubits}b"): binary, zero-padded to at least num_qubits.
BinaryRep(i, num_qubits) == PadLeft(BinToStr(i), num_qubits, "0")

Separator == <<" ", "+", " ">>

\* f"{amplitude:.3f}|{binary_rep}⟩ + "
Term(i, amplitude, dtype, num_qubits) ==
    FormatAmplitude(amplitude, dtype) \o <<"|">> \o BinaryRep(i, num_qubits)
    \o <<"⟩">> \o Separator

\* The accumulator after the loop has visited indices 0 .. i-1.
RECURSIVE Accumulate(_, _, _)
Accumulate(arr, num_qubits, i) ==
    IF i = 0 THEN <<>>
    ELSE Accumulate(arr, num_qubits, i - 1)
         \o (IF IsSignificant(arr.data[i], arr.dtype)
             THEN Term(i - 1, arr.data[i], arr.dtype, num_qubits)
             ELSE <<>>)

\* A variant that keeps the trailing separator.
DropLast_KeepAll(s, n) == s

\* s[:-n] of Python, n > 0.
DropLast(s, n) == IF Len(s) <= n THEN <<>> ELSE SubSeq(s, 1, Len(s) - n)

Returned(text) == [kind |-> "str", val |-> text]
Raised(exc) == [kind |-> "raise", val |-> <<>>, exc |-> exc]
NoRet == [kind |-> "none", val |-> <<>>]

array_to_dirac_notation(arr) ==
    LET superposition_array == Normalized(arr)
        nq == NumQubits(Len(superposition_array.data))
    IN  IF nq.raises THEN Raised("OverflowError")
        ELSE Returned(DropLast(Accumulate(superposition_array, nq.n,
                                          Len(superposition_array.data)),
                               SeparatorLen))

(***************************************************************************)
(* str() of numpy scalars (the host's default conversion).                 *)
(***************************************************************************)
RECURSIVE StripZeros(_)
StripZeros(n) == IF n % 10 = 0 THEN StripZeros(n \div 10) ELSE n

RECURSIVE Repeat(_, _)
Repeat(c, n) == IF n <= 0 THEN <<>> ELSE <<c>> \o Repeat(c, n - 1)

\* repr of a float: the shortest digits, fixed notation when the decimal
\* point lies in -4 < decpt <= 16 and scientific otherwise; dot_zero is
\* whether an integral value gets a trailing ".0" (a float does, a part of a
\* complex does not).
FloatRepr(a, dot_zero) ==
    IF a.k = "nan" THEN <<"n", "a", "n">>
    ELSE IF a.m = 0 THEN (IF dot_zero THEN <<"0", ".", "0">> ELSE <<"0">>)
    ELSE LET digits == IntToStr(StripZeros(Abs(a.m)))
             nd == Len(digits)
             decpt == a.e + NumDigits(Abs(a.m))
             sign == IF a.m < 0 THEN <<"-">> ELSE <<>>
             x == decpt - 1
         IN  sign \o
             (IF decpt <= -4 \/ decpt > 16
              THEN <<digits[1]>>
                   \o (IF nd > 1 THEN <<".">> \o SubSeq(digits, 2, nd) ELSE <<>>)
                   \o <<"e">> \o (IF x < 0 THEN <<"-">> ELSE <<"+">>)
                   \o PadLeft(IntToStr(Abs(x)), 2, "0")
              ELSE IF decpt <= 0
              THEN <<"0", ".">> \o Repeat("0", 0 - decpt) \o digits
              ELSE IF decpt >= nd
              THEN digits \o Repeat("0", decpt - nd)
                   \o (IF dot_zero THEN <<".", "0">> ELSE <<>>)
              ELSE SubSeq(digits, 1, decpt) \o <<".">> \o SubSeq(digits, decpt + 1, nd))

\* str of a complex: "<imag>j" when the real part is +0, else "(<real>+<imag>j)".
ComplexStr(z) ==
    IF FIsZero(z.real) THEN FloatRepr(z.imag, FALSE) \o <<"j">>
    ELSE <<"(">> \o FloatRepr(z.real, FALSE)
         \o (IF z.imag.k = "num" /\ z.imag.m < 0 THEN <<>> ELSE <<"+">>)
         \o FloatRepr(z.imag, FALSE) \o <<"j", ")">>

\* str of an element of an array of the given dtype.
ElementStr(z, dtype) ==
    IF dtype = "float64" THEN FloatRepr(z.real, TRUE) ELSE ComplexStr(z)

\* sep.join(parts)
RECURSIVE Join(_, _)
Join(sep, parts) ==
    IF Len(parts) = 0 THEN <<>>
    ELSE IF Len(parts) = 1 THEN parts[1]
    ELSE parts[1] \o sep \o Join(sep, Tail(parts))

(***************************************************************************)
(* array_to_matrix_representation and the three renderers.                 *)
(***************************************************************************)
\* The literal text of the templates.
DiracPrefix ==
    <<"D", "i", "r", "a", "c", " ", "N", "o", "t", "a", "t", "i", "o", "n",
      ":">>

MatrixPrefix ==
    <<"M", "a", "t", "r", "i", "x", " ", "R", "e", "p", "r", "e", "s", "e",
      "n", "t", "a", "t", "i", "o", "n", ":">>

BeginMatrix ==
    <<"\\", "b", "e", "g", "i", "n", "{", "b", "m", "a", "t", "r", "i", "x",
      "}", "\n">>

EndMatrix ==
    <<"\n", "\\", "e", "n", "d", "{", "b", "m", "a", "t", "r", "i", "x", "}">>

RowSeparator ==
    <<"\\", "\\", "\n">>

MatrixHeading ==
    <<"M", "a", "t", "r", "i", "x", " ", "r", "e", "p", "r", "e", "s", "e",
      "n", "t", "a", "t", "i", "o", "n", "\n">>

DiracHeading ==
    <<"D", "i", "r", "a", "c", " ", "N", "o", "t", "a", "t", "i", "o", "n",
      ":", "\n">>

NewLine ==
    <<"\n">>

\* array.reshape((len(array), 1)): a view on the buffer of array, no copy.
array_to_matrix_representation(h, b) ==
    [base |-> b, shape |-> <<Len(h[b].data), 1>>]

\* view.flatten(): the elements of the view in order, copied.
Flatten(h, view) == h[view.base]

ReturnedArray(view) == [kind |-> "ndarray", val |-> <<>>, view |-> view]
ReturnedMath(text) == [kind |-> "Math", val |-> text]
ReturnedLatex(text) == [kind |-> "Latex", val |-> text]

\* "\\\\\n".join(map(str, matrix_representation.flatten()))
MatrixEntries(h, b) ==
    LET flat == Flatten(h, array_to_matrix_representation(h, b))
    IN  Join(RowSeparator,
             [i \in 1..Len(flat.data) |-> ElementStr(flat.data[i], flat.dtype)])

array_to_dirac_latex(h, b) ==
    LET dirac == array_to_dirac_notation(h[b])
    IN  IF dirac.kind = "raise" THEN dirac
        ELSE ReturnedMath(DiracPrefix \o dirac.val)

array_to_matrix_latex(h, b) ==
    ReturnedMath(MatrixPrefix \o BeginMatrix
                 \o MatrixEntries(h, b) \o EndMatrix)

array_to_dirac_and_matrix_latex(h, b) ==
    LET latex == MatrixHeading \o BeginMatrix \o MatrixEntries(h, b)
                 \o EndMatrix \o NewLine
        dirac == array_to_dirac_notation(h[b])
    IN  IF dirac.kind = "raise" THEN dirac
        ELSE ReturnedLatex(latex \o DiracHeading \o dirac.val)

(***************************************************************************)
(* complex_matrix_to_string.                                               *)
(***************************************************************************)
FGreaterEq(a, b) == FGreater(a, b) \/ (a.k = "num" /\ b.k = "num" /\ a = b)

\* A variant with the unit "i" in every branch.
format_complex_number_LowerCase(x) ==
    IF FIsZero(x.real) /\ FIsZero(x.imag) THEN <<"0">>
    ELSE IF FIsZero(x.real) THEN FormatFixed(x.imag, MatrixDecimals) \o <<"i">>
    ELSE IF FIsZero(x.imag) THEN FormatFixed(x.real, MatrixDecimals)
    ELSE IF FGreaterEq(x.imag, Zero)
         THEN FormatFixed(x.real, MatrixDecimals) \o <<" ", "+", " ">>
              \o FormatFixed(x.imag, MatrixDecimals) \o <<"i">>
         ELSE FormatFixed(x.real, MatrixDecimals) \o <<" ", "-", " ">>
              \o FormatFixed(FNeg(x.imag), MatrixDecimals) \o <<"i">>

format_complex_number(x) ==
    IF FIsZero(x.real) /\ FIsZero(x.imag) THEN <<"0">>
    ELSE IF FIsZero(x.real) THEN FormatFixed(x.imag, MatrixDecimals) \o <<"i">>
    ELSE IF FIsZero(x.imag) THEN FormatFixed(x.real, MatrixDecimals)
    ELSE IF FGreaterEq(x.imag, Zero)
         THEN FormatFixed(x.real, MatrixDecimals) \o <<" ", "+", " ">>
              \o FormatFixed(x.imag, MatrixDecimals) \o <<"i">>
         ELSE FormatFixed(x.real, MatrixDecimals) \o <<" ", "-", " ">>
              \o FormatFixed(FNeg(x.imag), MatrixDecimals) \o <<"I">>

ReturnedStrings(rows) == [kind |-> "strmatrix", val |-> <<>>, rows |-> rows]

\* np.vectorize(format_complex_number)(matrix): elementwise, same shape.
complex_matrix_to_string(mat) ==
    ReturnedStrings([i \in 1..Len(mat) |->
                       [j \in 1..Len(mat[i]) |-> format_complex_number(mat[i][j])]])

(***************************************************************************)
(* Spec: array_to_dirac_notation called on every array of the bounds.      *)
(***************************************************************************)
InitWith(arr) ==
    /\ heap = <<arr>>
    /\ orig = arr
    /\ matrix = <<>>
    /\ ret = NoRet
    /\ views = {}
    /\ writes = 0
    /\ last = "init"

Init == \E arr \in ArraysUpTo(MaxLen) : InitWith(arr)

ArrayToDiracNotation ==
    /\ ret' = array_to_dirac_notation(heap[1])
    /\ heap' = AssignNormalized(heap, 1, Normalized(heap[1]))
    /\ last' = "array_to_dirac_notation"
    /\ UNCHANGED <<matrix, views, writes, orig>>

Next == ArrayToDiracNotation

Spec == Init /\ [][Next]_vars

(***************************************************************************)
(* SpecMatrix: complex_matrix_to_string called on every matrix of the      *)
(* bounds.                                                                 *)
(***************************************************************************)
MatrixElements ==
    { Cx(Zero, Zero), Cx(Flt(1, 0), Flt(2, 0)), Cx(Flt(3, 0), Flt(-4, 0)),
      Cx(Zero, Flt(5, 0)), Cx(Zero, Flt(-5, 0)), Cx(Flt(6, -5), Zero),
      Cx(Flt(-25, -1), Flt(6, -5)) }

Shapes == { rc \in (1..MaxCells) \X (1..MaxCells) : rc[1] * rc[2] <= MaxCells }

Matrices ==
    UNION { [1..rc[1] -> [1..rc[2] -> MatrixElements]] : rc \in Shapes }

InitMatrix ==
    /\ matrix \in Matrices
    /\ heap = <<>>
    /\ orig = NDArray("complex128", <<>>)
    /\ ret = NoRet
    /\ views = {}
    /\ writes = 0
    /\ last = "init"

ComplexMatrixToString ==
    /\ ret' = complex_matrix_to_string(matrix)
    /\ last' = "complex_matrix_to_string"
    /\ UNCHANGED <<heap, matrix, views, writes, orig>>

NextMatrix == ComplexMatrixToString

SpecMatrix == InitMatrix /\ [][NextMatrix]_vars

(***************************************************************************)
(* SpecCalls: any sequence of calls of array_to_dirac_notation and the     *)
(* three renderers on one array.                                           *)
(***************************************************************************)
InitCalls == \E arr \in ArraysUpTo(MaxCallLen) : InitWith(arr)

\* The buffers after a call that runs array_to_dirac_notation on buffer b.
AfterDirac(h, b) == AssignNormalized(h, b, Normalized(h[b]))

ArrayToDiracLatex ==
    /\ ret' = array_to_dirac_latex(heap, 1)
    /\ heap' = AfterDirac(heap, 1)
    /\ last' = "array_to_dirac_latex"
    /\ UNCHANGED <<matrix, views, writes, orig>>

ArrayToMatrixLatex ==
    /\ ret' = array_to_matrix_latex(heap, 1)
    /\ last' = "array_to_matrix_latex"
    /\ UNCHANGED <<heap, matrix, views, writes, orig>>

ArrayToDiracAndMatrixLatex ==
    /\ ret' = array_to_dirac_and_matrix_latex(heap, 1)
    /\ heap' = AfterDirac(heap, 1)
    /\ last' = "array_to_dirac_and_matrix_latex"
    /\ UNCHANGED <<matrix, views, writes, orig>>

NextCalls ==
    \/ ArrayToDiracNotation
    \/ ArrayToDiracLatex
    \/ ArrayToMatrixLatex
    \/ ArrayToDiracAndMatrixLatex

SpecCalls == InitCalls /\ [][NextCalls]_vars

(***************************************************************************)
(* SpecShared: callers share one array, call every operation on it in any  *)
(* order, keep the column matrices they get and write to them.             *)
(***************************************************************************)
WrittenValues == { Cx(Flt(1, 0), Zero), Cx(Zero, Zero) }

ArrayToMatrixRepresentation ==
    /\ ret' = ReturnedArray(array_to_matrix_representation(heap, 1))
    /\ views' = views \cup {array_to_matrix_representation(heap, 1)}
    /\ last' = "array_to_matrix_representation"
    /\ UNCHANGED <<heap, matrix, writes, orig>>

\* A caller assigns to element [i, 0] of a column matrix it was returned.
WriteToResult ==
    /\ writes < MaxWrites
    /\ \E view \in views : \E i \in 1..view.shape[1] : \E v \in WrittenValues :
          heap' = [heap EXCEPT ![view.base].data[i] = v]
    /\ writes' = writes + 1
    /\ ret' = NoRet
    /\ last' = "write"
    /\ UNCHANGED <<matrix, views, orig>>

NextShared ==
    \/ ArrayToDiracNotation
    \/ ArrayToDiracLatex
    \/ ArrayToMatrixLatex
    \/ ArrayToDiracAndMatrixLatex
    \/ ArrayToMatrixRepresentation
    \/ WriteToResult

SpecShared == InitCalls /\ [][NextShared]_vars

(***************************************************************************)
(* Reading text back: what the claims say about returned strings is        *)
(* stated on the strings themselves.                                       *)
(***************************************************************************)
StartsWith(s, p) == Len(s) >= Len(p) /\ SubSeq(s, 1, Len(p)) = p

EndsWith(s, p) == Len(s) >= Len(p) /\ SubSeq(s, Len(s) - Len(p) + 1, Len(s)) = p

OccurrencesAt(s, p) ==
    { i \in 1..(Len(s) - Len(p) + 1) : SubSeq(s, i, i + Len(p) - 1) = p }

Occurrences(s, p) == Cardinality(OccurrencesAt(s, p))

Min(S) == CHOOSE x \in S : \A y \in S : x <= y

RECURSIVE SplitOn(_, _)
SplitOn(s, sep) ==
    IF OccurrencesAt(s, sep) = {} THEN <<s>>
    ELSE LET i == Min(OccurrencesAt(s, sep))
         IN  <<SubSeq(s, 1, i - 1)>> \o SplitOn(SubSeq(s, i + Len(sep), Len(s)), sep)

\* The terms of a notation string.
Terms(text) == IF text = <<>> THEN <<>> ELSE SplitOn(text, Separator)

\* A term is "<amplitude>|<label>⟩" with a non-empty label over {0, 1}.
IsTerm(term) ==
    /\ Occurrences(term, <<"|">>) = 1
    /\ Occurrences(term, <<"⟩">>) = 1
    /\ EndsWith(term, <<"⟩">>)
    /\ Min(OccurrencesAt(term, <<"|">>)) > 1
    /\ Len(term) > Min(OccurrencesAt(term, <<"|">>)) + 1
    /\ \A k \in (Min(OccurrencesAt(term, <<"|">>)) + 1)..(Len(term) - 1) :
          term[k] \in {"0", "1"}

LabelOf(term) == SubSeq(term, Min(OccurrencesAt(term, <<"|">>)) + 1, Len(term) - 1)

RECURSIVE BinValue(_)
BinValue(label) ==
    IF Len(label) = 0 THEN 0
    ELSE 2 * BinValue(SubSeq(label, 1, Len(label) - 1))
         + (IF label[Len(label)] = "1" THEN 1 ELSE 0)

\* The indices (from 0) whose rescaled amplitude is significant, increasing.
SignificantIndices(arr) ==
    SelectSeq([i \in 1..Len(arr.data) |-> i - 1],
              LAMBDA i : IsSignificant(Normalized(arr).data[i + 1], arr.dtype))

IsPowerOfTwo(n) == \E k \in 0..n : Pow2(k) = n

\* The n with 2^n <= length < 2^(n+1), length >= 1.
Log2Floor(length) == CHOOSE n \in 0..length : Pow2(n) <= length /\ length < Pow2(n + 1)

NonZeroNorm(arr) == ~FIsZero(LinalgNorm(arr))

DiracReturned == last = "array_to_dirac_notation" /\ ret.kind = "str"

One == Cx(Flt(1, 0), Zero)
Tiny9 == Cx(Flt(1, -9), Zero)
Tiny11 == Cx(Flt(1, -11), Zero)

(***************************************************************************)
(* Claims about array_to_dirac_notation (specification Spec).              *)
(***************************************************************************)

\* C1: for a power-of-two length and a non-zero norm the result holds
\* exactly one term per significant index and none for any other, in
\* increasing index order, joined by " + ", with k-1 separators for k terms
\* and no separator at either end.
C1_OneTermPerSignificantIndex ==
    (last = "array_to_dirac_notation" /\ IsPowerOfTwo(Len(orig.data))
       /\ NonZeroNorm(orig)) =>
        /\ ret.kind = "str"
        /\ LET sig == SignificantIndices(orig)
               terms == Terms(ret.val)
           IN  /\ Len(terms) = Len(sig)
               /\ \A j \in 1..Len(terms) :
                     IsTerm(terms[j]) /\ BinValue(LabelOf(terms[j])) = sig[j]
               /\ Occurrences(ret.val, Separator) = Len(sig) - 1
               /\ ~StartsWith(ret.val, Separator)
               /\ ~EndsWith(ret.val, Separator)

\* C1 witness: four amplitudes, three terms, one non-zero amplitude left out.
C1_Witness ==
    /\ DiracReturned
    /\ Len(orig.data) = 4
    /\ Len(SignificantIndices(orig)) = 3
    /\ \E k \in 1..4 : orig.data[k] = Tiny11
    /\ Occurrences(ret.val, Separator) = 2

\* C2 as stated: for length 2^n, n >= 0, the label of every term is the
\* binary representation of its index in exactly n characters over {0, 1}.
C2_LabelHasExactlyNChars ==
    (DiracReturned /\ IsPowerOfTwo(Len(orig.data))) =>
        LET n == Log2Floor(Len(orig.data))
            sig == SignificantIndices(orig)
            terms == Terms(ret.val)
        IN  /\ Len(terms) = Len(sig)
            /\ \A j \in 1..Len(terms) :
                  /\ IsTerm(terms[j])
                  /\ Len(LabelOf(terms[j])) = n
                  /\ BinValue(LabelOf(terms[j])) = sig[j]

\* C2 amended: for length 2^n the label of every term is the binary
\* representation of its index zero-padded to n characters, which is n
\* characters for n >= 1 and the one character "0" for n = 0; the labels of
\* distinct terms are distinct.
C2_LabelIsPaddedBinary ==
    (DiracReturned /\ IsPowerOfTwo(Len(orig.data))) =>
        LET n == Log2Floor(Len(orig.data))
            sig == SignificantIndices(orig)
            terms == Terms(ret.val)
        IN  /\ Len(terms) = Len(sig)
            /\ \A j \in 1..Len(terms) :
                  /\ IsTerm(terms[j])
                  /\ Len(LabelOf(terms[j])) = (IF n = 0 THEN 1 ELSE n)
                  /\ BinValue(LabelOf(terms[j])) = sig[j]
            /\ \A j1, j2 \in 1..Len(terms) :
                  j1 # j2 => LabelOf(terms[j1]) # LabelOf(terms[j2])

\* C2 witness: length 4, the term of index 1 carries the label "01".
C2_Witness ==
    /\ DiracReturned
    /\ Len(orig.data) = 4
    /\ SignificantIndices(orig) = <<1, 3>>
    /\ LabelOf(Terms(ret.val)[1]) = <<"0", "1">>

\* Whether an input element is among the terms of the result.
IncludedIndices(text) == { BinValue(LabelOf(Terms(text)[j])) : j \in 1..Len(Terms(text)) }

\* C4 as stated: an input amplitude of exactly 1e-11 is excluded and one of
\* exactly 1e-9 is included, whatever the rest of the input.
C4_InputAmplitudeDecides ==
    DiracReturned =>
        \A k \in 1..Len(orig.data) :
            /\ orig.data[k] = Tiny11 => (k - 1) \notin IncludedIndices(ret.val)
            /\ orig.data[k] = Tiny9 => (k - 1) \in IncludedIndices(ret.val)

\* C4 amended: the threshold applies to the rescaled amplitude, so for an
\* input of norm 1 an amplitude of 1e-11 is excluded and one of 1e-9 is
\* included.
C4_UnitNormAmplitudeDecides ==
    (DiracReturned /\ LinalgNorm(orig) = Flt(1, 0)) =>
        \A k \in 1..Len(orig.data) :
            /\ orig.data[k] = Tiny11 => (k - 1) \notin IncludedIndices(ret.val)
            /\ orig.data[k] = Tiny9 => (k - 1) \in IncludedIndices(ret.val)

\* C4 witness: a unit-norm input holding both 1e-11 and 1e-9.
C4_Witness ==
    /\ DiracReturned
    /\ LinalgNorm(orig) = Flt(1, 0)
    /\ \E k \in 1..Len(orig.data) : orig.data[k] = Tiny11
    /\ \E k \in 1..Len(orig.data) : orig.data[k] = Tiny9
    /\ Len(Terms(ret.val)) = 2

\* The 2-qubit basis state e_i.
IsBasisState(arr, i) ==
    /\ Len(arr.data) = 4
    /\ \A k \in 1..4 : arr.data[k] = (IF k = i + 1 THEN One ELSE Cx(Zero, Zero))

TextOneWithI == <<"1", ".", "0", "0", "0", "+", "0", ".", "0", "0", "0", "i">>

TextOneWithJ == <<"1", ".", "0", "0", "0", "+", "0", ".", "0", "0", "0", "j">>

TextOneReal == <<"1", ".", "0", "0", "0">>

TwoBits(i) == << <<"0", "0">>, <<"0", "1">>, <<"1", "0">>, <<"1", "1">> >>[i + 1]

\* C5 as stated: e_i gives the single term "1.000+0.000i|<2 bits of i>⟩".
C5_BasisStateTextWithI ==
    \A i \in 0..3 :
        (last = "array_to_dirac_notation" /\ IsBasisState(orig, i)) =>
            /\ ret.kind = "str"
            /\ ret.val = TextOneWithI \o <<"|">> \o TwoBits(i) \o <<"⟩">>

\* C5 amended: e_i gives exactly one term and no separator; its amplitude
\* text is "1.000+0.000j" (both parts, 3 decimals, Python's unit j) when the
\* array is complex-typed and "1.000" (the real part alone) when it is
\* real-typed, followed by the 2-bit label of i in ket brackets.
C5_BasisStateText ==
    \A i \in 0..3 :
        (last = "array_to_dirac_notation" /\ IsBasisState(orig, i)) =>
            /\ ret.kind = "str"
            /\ ret.val = (IF orig.dtype = "complex128" THEN TextOneWithJ ELSE TextOneReal)
                         \o <<"|">> \o TwoBits(i) \o <<"⟩">>
            /\ Occurrences(ret.val, Separator) = 0

\* C5 witness: the complex-typed e_2 has been rendered.
C5_Witness ==
    /\ DiracReturned
    /\ IsBasisState(orig, 2)
    /\ orig.dtype = "complex128"
    /\ Len(Terms(ret.val)) = 1

\* C8 as stated: whenever no amplitude is significant (an all-zero sequence
\* and a zero-length sequence included) the call returns the empty string
\* and does not raise.
C8_NoTermsGivesEmptyString ==
    (last = "array_to_dirac_notation" /\ SignificantIndices(orig) = <<>>) =>
        (ret.kind = "str" /\ ret.val = <<>>)

\* C10: for a length L >= 1 that is no power of two, with non-zero norm, the
\* call raises nothing, the width is n = floor(log2(L)), and every
\* significant index has a term: an n-character zero-padded label below
\* 2^n, the unpadded binary label, longer than n, from 2^n on.
C10_NonPowerOfTwoLabels ==
    (last = "array_to_dirac_notation" /\ Len(orig.data) >= 1
       /\ ~IsPowerOfTwo(Len(orig.data)) /\ NonZeroNorm(orig)) =>
        /\ ret.kind = "str"
        /\ LET n == Log2Floor(Len(orig.data))
               sig == SignificantIndices(orig)
               terms == Terms(ret.val)
           IN  /\ Len(terms) = Len(sig)
               /\ \A j \in 1..Len(terms) :
                     /\ IsTerm(terms[j])
                     /\ BinValue(LabelOf(terms[j])) = sig[j]
                     /\ IF sig[j] < Pow2(n)
                        THEN Len(LabelOf(terms[j])) = n
                        ELSE /\ Len(LabelOf(terms[j])) > n
                             /\ LabelOf(terms[j])[1] = "1"

\* C10 witness: length 3, indices 0 and 2 significant, labels "0" and "10".
C10_Witness ==
    /\ DiracReturned
    /\ Len(orig.data) = 3
    /\ SignificantIndices(orig) = <<0, 2>>
    /\ LabelOf(Terms(ret.val)[1]) = <<"0">>
    /\ LabelOf(Terms(ret.val)[2]) = <<"1", "0">>

(***************************************************************************)
(* Claims about complex_matrix_to_string (specification SpecMatrix).       *)
(***************************************************************************)
SameShape(a, b) ==
    /\ Len(a) = Len(b)
    /\ \A i \in 1..Len(a) : Len(a[i]) = Len(b[i])

C3_Input ==
    << <<Cx(Zero, Zero), Cx(Flt(1, 0), Flt(2, 0))>>,
       <<Cx(Flt(3, 0), Flt(-4, 0)), Cx(Zero, Flt(5, 0))>> >>

TextE12 ==
    <<"1", ".", "0", "0", "0", "0", " ", "+",
      " ", "2", ".", "0", "0", "0", "0", "i">>

TextE21 ==
    <<"3", ".", "0", "0", "0", "0", " ", "-",
      " ", "4", ".", "0", "0", "0", "0", "I">>

TextE22 == <<"5", ".", "0", "0", "0", "0", "i">>

C3_Output ==
    << << <<"0">>, TextE12 >>,
       << TextE21,
          TextE22 >> >>

\* The element rule of the table, by the zero / non-zero / sign status.
FollowsRule(x, out) ==
    LET re == FormatFixed(x.real, MatrixDecimals)
        im == FormatFixed(x.imag, MatrixDecimals)
        negim == FormatFixed(FNeg(x.imag), MatrixDecimals)
    IN  /\ (FIsZero(x.real) /\ FIsZero(x.imag)) => out = <<"0">>
        /\ (FIsZero(x.real) /\ ~FIsZero(x.imag)) => out = im \o <<"i">>
        /\ (~FIsZero(x.real) /\ FIsZero(x.imag)) => out = re
        /\ (~FIsZero(x.real) /\ FGreater(x.imag, Zero)) =>
              out = re \o <<" ", "+", " ">> \o im \o <<"i">>
        /\ (~FIsZero(x.real) /\ FGreater(Zero, x.imag)) =>
              out = re \o <<" ", "-", " ">> \o negim \o <<"I">>

\* C3: the result has the shape of the input, every element follows the
\* rule of the table (capital I in the negative-imaginary form), and the
\* example matrix maps to the example strings.
C3_ElementwiseRule ==
    last = "complex_matrix_to_string" =>
        /\ ret.kind = "strmatrix"
        /\ SameShape(ret.rows, matrix)
        /\ \A i \in 1..Len(matrix) : \A j \in 1..Len(matrix[i]) :
              FollowsRule(matrix[i][j], ret.rows[i][j])
        /\ matrix = C3_Input => ret.rows = C3_Output

\* C3 witness: the example matrix has been mapped.
C3_Witness ==
    /\ last = "complex_matrix_to_string"
    /\ matrix = C3_Input
    /\ ret.rows[2][1] = TextE21

\* a truncated to nd decimals: the digits beyond the nd-th dropped.
TruncFixed(a, nd) ==
    LET sh == a.e + nd
        scaled == IF sh >= 0 THEN Abs(a.m) * Pow10(sh)
                  ELSE IF 0 - sh >= 5 THEN 0
                  ELSE Abs(a.m) \div Pow10(0 - sh)
        p == Pow10(nd)
    IN  (IF a.m < 0 THEN <<"-">> ELSE <<>>)
        \o IntToStr(scaled \div p) \o <<".">>
        \o PadLeft(IntToStr(scaled % p), nd, "0")

StripUnit(token) ==
    IF token # <<>> /\ token[Len(token)] \in {"i", "I"}
    THEN SubSeq(token, 1, Len(token) - 1) ELSE token

\* The numeric parts of a formatted element, in order.
NumericParts(out) ==
    LET tokens == SelectSeq(SplitOn(out, <<" ">>),
                            LAMBDA t : t # <<"+">> /\ t # <<"-">>)
    IN  [k \in 1..Len(tokens) |-> StripUnit(tokens[k])]

TruncatedParts(x) ==
    IF FIsZero(x.real) THEN <<TruncFixed(x.imag, MatrixDecimals)>>
    ELSE IF FIsZero(x.imag) THEN <<TruncFixed(x.real, MatrixDecimals)>>
    ELSE <<TruncFixed(x.real, MatrixDecimals),
           TruncFixed(FAbs(x.imag), MatrixDecimals)>>

\* C6 as stated: every numeric part emitted is the real or imaginary part
\* truncated, not rounded, to 4 decimals.
C6_PartsAreTruncated ==
    last = "complex_matrix_to_string" =>
        \A i \in 1..Len(matrix) : \A j \in 1..Len(matrix[i]) :
            \/ FIsZero(matrix[i][j].real) /\ FIsZero(matrix[i][j].imag)
            \/ NumericParts(ret.rows[i][j]) = TruncatedParts(matrix[i][j])

(***************************************************************************)
(* Claims about the caller's array (SpecCalls, SpecShared).                *)
(***************************************************************************)

\* C7: after any sequence of calls of array_to_dirac_notation,
\* array_to_dirac_latex, array_to_matrix_latex and
\* array_to_dirac_and_matrix_latex every element of the input array has the
\* value it had before the first call.
C7_InputNeverWritten == heap[1] = orig

\* C7 witness: the combined renderer has returned for an array that the
\* normalization rescales.
C7_Witness ==
    /\ last = "array_to_dirac_and_matrix_latex"
    /\ ret.kind = "Latex"
    /\ Normalized(orig) # orig
    /\ Len(orig.data) = 2

\* C9 as stated: whatever calls are made on the array and whatever callers
\* write to the results they were returned, the input array keeps its
\* elements: no result shares storage with it.
C9_NoResultAliasesInput == heap[1] = orig

====
